---- MODULE Spec2Model ----
(***************************************************************************)
(* A model of the scene orchestration engine of AIMMG:                     *)
(*   - StoryMemory (store/memory.py): the SQLite transcript store;         *)
(*   - run_scenes and its callers (story_roadmap.py): the orchestrator.    *)
(* Text is modelled as a sequence of tokens (<< >> is the empty string).   *)
(***************************************************************************)
EXTENDS Integers, Sequences, FiniteSets, TLC

\* ------------------------------------------------------------------------
\* Bounds of the model
\* ------------------------------------------------------------------------
\* most rows the messages table may hold
MaxRows == 2
\* most process crashes/restarts explored by the store specification
MaxCrashes == 1
\* most characters a story declares
MaxChars == 2
\* most rows left in the table by earlier runs when an orchestrator run starts
MaxPrior == 1
\* most close() calls made on the store between two connects
MaxCloses == 2
\* most add calls the threads sharing one store begin
MaxCalls == 3
\* most content blocks of a reply handed to _msg_content
MaxBlocks == 2

\* ------------------------------------------------------------------------
\* Values
\* ------------------------------------------------------------------------
EmptyDb == [rows |-> {}, seq |-> 0]

NoRead == [op |-> "none", scene |-> "", rows |-> << >>, run |-> 0]

\* scene ids, character ids and contents the store's callers write
StoreScenes == {"S1", "S2"}
StoreChars == {"moderator", "A"}
StoreContents == {<< >>, <<"hi">>}

\* ------------------------------------------------------------------------
\* StoryMemory: the messages table
\* ------------------------------------------------------------------------
SetMax(S) == IF S = {} THEN 0 ELSE CHOOSE m \in S : \A x \in S : x <= m

\* INTEGER PRIMARY KEY AUTOINCREMENT: one more than the largest id ever
\* used, as recorded in sqlite_sequence (and never less than the largest
\* rowid present).
NextIdReuse(db) == SetMax({db.seq} \cup {r.id : r \in db.rows})

NextId(db) == SetMax({db.seq} \cup {r.id : r \in db.rows}) + 1

\* INSERT INTO messages (scene_id, scene_name, character_id, character_name,
\* content) VALUES (?, ?, ?, ?, ?)
InsertRow(db, a) ==
    LET nid == NextId(db)
        row == [id |-> nid, scene_id |-> a.scene_id, scene_name |-> a.scene_name,
                character_id |-> a.character_id,
                character_name |-> a.character_name, content |-> a.content]
    IN [rows |-> db.rows \cup {row}, seq |-> nid]

\* ORDER BY id over a set of rows
RECURSIVE OrderById(_)
OrderById(S) ==
    IF S = {} THEN << >>
    ELSE LET lo == CHOOSE r \in S : \A q \in S : r.id <= q.id
         IN <<lo>> \o OrderById(S \ {lo})

\* SELECT ... FROM messages WHERE scene_id = ? ORDER BY id
SelectBySceneName(db, s) == OrderById({r \in db.rows : r.scene_name = s})

SelectByScene(db, s) == OrderById({r \in db.rows : r.scene_id = s})

\* all rows read backwards (a SELECT without an ORDER BY id that suits)
RECURSIVE Reverse(_)
Reverse(q) == IF q = << >> THEN << >> ELSE Append(Reverse(Tail(q)), Head(q))

SelectAllUnordered(db) == Reverse(OrderById(db.rows))

\* SELECT ... FROM messages ORDER BY id
SelectAll(db) == OrderById(db.rows)


\* ------------------------------------------------------------------------
\* State
\* ------------------------------------------------------------------------
VARIABLES
    \* --- StoryMemory and its backing file ---
    conn,        \* self._conn: "none" (None) or "open"
    disk,        \* the committed contents of <story_id>.db
    view,        \* what the open connection sees: disk plus its open transaction
    storePc,     \* where the store's caller is: "idle", "inserted" (inside add,
                 \* between INSERT and commit), "down" (process not running)
    inflight,    \* cur.lastrowid of the INSERT of the add in progress
    inflightArgs,\* the arguments of the add in progress
    returned,    \* history: the adds that returned, with the id each returned
                 \* and the number of crashes before it
    lastRead,    \* history: the latest list_by_scene / list_all result, if
                 \* no add began since, and the number of crashes before it
    crashes,     \* history: number of process crashes so far
    closeLog,    \* history: the close() calls made since the last connect, how
                 \* many of them closed a connection, and whether that connect
                 \* followed a close()
    \* --- the orchestrator run ---
    pc,          \* position of the command-line run
    story,       \* the parsed story document
    characters,  \* the dict built by create_characters, in insertion order
    participants,\* the agents handed to MsgHub
    scene,       \* the scene resolved by run_scenes
    hubOpen,     \* a MsgHub is entered and not yet exited
    hubsOpened,  \* history: number of MsgHub entries
    exc,         \* the exception propagating out of run_scenes ("none" if none)
    asked,       \* history: owners of the agents invoked, in order
    seq0,        \* history: the largest id in the store when the run started
    \* --- the environment of the run ---
    failAt,      \* the index of the participant call that raises (0: none)
    storeFailAt, \* the index of the store write that raises (0: none)
    replyKind,   \* the shape of the replies the agents produce
    setupFails,  \* the store's first write (CREATE TABLE, at construction)
                 \* raises sqlite3.Error
    \* --- threads sharing one StoryMemory ---
    connOwner,   \* the thread that created the connection self._conn refers to
    fileLock,    \* the thread whose connection holds the file's write lock (0: none)
    th,          \* each thread's position inside add, its local conn, its
                 \* arguments, and what its connection's transaction holds
    callLog,     \* history: the add calls that ended, with their outcome
    \* --- one call of _msg_content ---
    msgIn,       \* the reply handed to _msg_content
    msgOut       \* whether the call has returned, and the text it returned

storeVars == <<conn, disk, view, storePc, inflight, inflightArgs, returned,
               lastRead, crashes, closeLog>>
runVars == <<pc, story, characters, participants, scene, hubOpen, hubsOpened,
             exc, asked, seq0>>
envVars == <<failAt, storeFailAt, replyKind, setupFails>>
concVars == <<connOwner, fileLock, th, callLog>>
fnVars == <<msgIn, msgOut>>
vars == <<storeVars, runVars, envVars, fnVars, concVars>>

NoCloses == [calls |-> 0, released |-> 0, reopened |-> FALSE]

NoArgs == [scene_id |-> "", scene_name |-> "", character_id |-> "",
           character_name |-> "", content |-> << >>]

\* the arguments add is called with: every scene with every character, and
\* each of the two with a content and with the empty content
AddArgs == {a \in [scene_id : StoreScenes, scene_name : {"scene"},
                   character_id : StoreChars, character_name : {"name"},
                   content : StoreContents] :
              (a.content = << >>) <=> ((a.scene_id = "S1") <=> (a.character_id = "A"))}

\* ------------------------------------------------------------------------
\* StoryMemory operations
\* ------------------------------------------------------------------------
\* a _get_conn that hands back self._conn as it is
GetConnNoReconnect(c) == c

\* _get_conn: connect when self._conn is None, reuse the connection otherwise
GetConn(c) == "open"

\* the close() history starts afresh with each new connection
OnConnect(c, log) ==
    IF c = "none"
    THEN [calls |-> 0, released |-> 0, reopened |-> log.calls >= 1]
    ELSE log

\* cur.lastrowid or 0
LastRowIdOr0(lastrowid) == IF lastrowid = 0 THEN 0 ELSE lastrowid

\* conn.commit(): the open transaction reaches the file
CommitNothing(d, v) == d

Commit(d, v) == v

\* add, first half: _get_conn and the INSERT (inside an implicit transaction)
AddInsert(a) ==
    /\ storePc = "idle"
    /\ Cardinality(view.rows) < MaxRows
    /\ conn' = GetConn(conn)
    /\ view' = InsertRow(view, a)
    /\ inflight' = NextId(view)
    /\ inflightArgs' = a
    /\ storePc' = "inserted"
    /\ lastRead' = NoRead
    /\ UNCHANGED <<disk, returned, crashes>>
    /\ UNCHANGED <<runVars, envVars, fnVars, concVars>>
    /\ closeLog' = OnConnect(conn, closeLog)

\* add, second half: conn.commit() and return cur.lastrowid or 0
AddCommit ==
    /\ storePc = "inserted"
    /\ disk' = Commit(disk, view)
    /\ returned' = Append(returned,
                     [id |-> LastRowIdOr0(inflight),
                      scene_id |-> inflightArgs.scene_id,
                      character_id |-> inflightArgs.character_id,
                      content |-> inflightArgs.content,
                      run |-> crashes])
    /\ storePc' = "idle"
    /\ inflight' = 0
    /\ inflightArgs' = NoArgs
    /\ UNCHANGED <<conn, view, lastRead, crashes>>
    /\ UNCHANGED <<runVars, envVars, fnVars, concVars>>
    /\ UNCHANGED closeLog

\* add raising sqlite3.Error at the INSERT: nothing is written
AddInsertFail ==
    /\ storePc = "idle"
    /\ conn' = GetConn(conn)
    /\ lastRead' = NoRead
    /\ UNCHANGED <<disk, view, storePc, inflight, inflightArgs, returned,
                   crashes>>
    /\ UNCHANGED <<runVars, envVars, fnVars, concVars>>
    /\ closeLog' = OnConnect(conn, closeLog)

\* add raising sqlite3.Error at the commit: SQLite either rolls the
\* transaction back itself (disk full, I/O error) or leaves it open (busy)
AddCommitFail ==
    /\ storePc = "inserted"
    /\ \E rolledBack \in BOOLEAN :
          view' = IF rolledBack THEN disk ELSE view
    /\ storePc' = "idle"
    /\ inflight' = 0
    /\ inflightArgs' = NoArgs
    /\ UNCHANGED <<conn, disk, returned, lastRead, crashes>>
    /\ UNCHANGED <<runVars, envVars, fnVars, concVars>>
    /\ UNCHANGED closeLog

\* list_by_scene(scene_id)
ListByScene(s) ==
    /\ storePc = "idle"
    /\ conn' = GetConn(conn)
    /\ lastRead' = [op |-> "list_by_scene", scene |-> s,
                    rows |-> SelectByScene(view, s), run |-> crashes]
    /\ UNCHANGED <<disk, view, storePc, inflight, inflightArgs, returned,
                   crashes>>
    /\ UNCHANGED <<runVars, envVars, fnVars, concVars>>
    /\ closeLog' = OnConnect(conn, closeLog)

\* list_all()
ListAll ==
    /\ storePc = "idle"
    /\ conn' = GetConn(conn)
    /\ lastRead' = [op |-> "list_all", scene |-> "",
                    rows |-> SelectAll(view), run |-> crashes]
    /\ UNCHANGED <<disk, view, storePc, inflight, inflightArgs, returned,
                   crashes>>
    /\ UNCHANGED <<runVars, envVars, fnVars, concVars>>
    /\ closeLog' = OnConnect(conn, closeLog)

\* a close() that closes the connection but keeps the reference to it
CloseKeepsHandle ==
    /\ storePc = "idle"
    /\ closeLog.calls < MaxCloses
    /\ closeLog' = [closeLog EXCEPT !.calls = @ + 1, !.released = @ + 1]
    /\ view' = disk
    /\ UNCHANGED <<conn, disk, storePc, inflight, inflightArgs, returned,
                   lastRead, crashes>>
    /\ UNCHANGED <<runVars, envVars, fnVars, concVars>>

\* close(): if there is a connection, closes it (an open transaction is
\* rolled back by sqlite3) and forgets it; otherwise does nothing
Close ==
    /\ storePc = "idle"
    /\ closeLog.calls < MaxCloses
    /\ closeLog' = [closeLog EXCEPT
                       !.calls = @ + 1,
                       !.released = IF conn = "open" THEN @ + 1 ELSE @]
    /\ conn' = "none"
    /\ view' = disk
    /\ UNCHANGED <<disk, storePc, inflight, inflightArgs, returned, lastRead,
                   crashes>>
    /\ UNCHANGED <<runVars, envVars, fnVars, concVars>>

\* __exit__: leaving a with-block calls close()
ExitWith ==
    /\ storePc \in {"idle"}
    /\ Close

\* the process dies (crash, kill, or exit without close): the connection
\* and whatever was not committed are gone
Crash ==
    /\ storePc \in {"idle", "inserted"}
    /\ crashes < MaxCrashes
    /\ conn' = "none"
    /\ view' = disk
    /\ storePc' = "down"
    /\ inflight' = 0
    /\ inflightArgs' = NoArgs
    /\ crashes' = crashes + 1
    /\ UNCHANGED <<disk, returned, lastRead>>
    /\ UNCHANGED <<runVars, envVars, fnVars, concVars>>
    /\ closeLog' = NoCloses

\* a new process constructs StoryMemory(story_id): __init__ runs
\* _ensure_table, which connects, CREATE TABLE IF NOT EXISTS, commits
Restart ==
    /\ storePc = "down"
    /\ conn' = GetConn(conn)
    /\ view' = disk
    /\ storePc' = "idle"
    /\ UNCHANGED <<disk, inflight, inflightArgs, returned, lastRead, crashes>>
    /\ UNCHANGED <<runVars, envVars, fnVars, concVars>>
    /\ closeLog' = OnConnect(conn, closeLog)


\* ------------------------------------------------------------------------
\* StoryMemory.add called from several threads on one instance
\* ------------------------------------------------------------------------
\* thread 1 is the one that constructed the StoryMemory
Threads == {1, 2}

IdleThread == [pc |-> "idle", h |-> 0, args |-> NoArgs, id |-> 0, view |-> EmptyDb]

\* what thread t writes: every field but the scene's carries the thread's mark
ThreadArgs(t) ==
    [scene_id : {"S1"}, scene_name : {"scene"},
     character_id : {IF t = 1 THEN "A" ELSE "B"},
     character_name : {IF t = 1 THEN "nameA" ELSE "nameB"},
     content : {<<IF t = 1 THEN "a" ELSE "b">>, <<IF t = 1 THEN "aa" ELSE "bb">>}]

CallsBegun == Len(callLog) + Cardinality({t \in Threads : th[t].pc # "idle"})

\* sqlite3.Connection has check_same_thread=True: a thread other than the
\* one that created it gets sqlite3.ProgrammingError from any method
SameThread(t, h) == h = t

\* a write statement takes the file's RESERVED lock, which one connection
\* holds at a time; the others wait for it in the busy handler
CanLock(t) == fileLock \in {0, t}

ThreadDone(t, outcome, id) ==
    /\ callLog' = Append(callLog, [thread |-> t, args |-> th[t].args,
                                   outcome |-> outcome, id |-> id])
    /\ th' = [th EXCEPT ![t] = IdleThread]

\* thread t calls add(...)
TAddCall(t, a) ==
    /\ th[t].pc = "idle"
    /\ CallsBegun < MaxCalls
    /\ th' = [th EXCEPT ![t] = [IdleThread EXCEPT !.pc = "get_conn", !.args = a]]
    /\ UNCHANGED <<storeVars, runVars, envVars, fnVars, connOwner, fileLock, callLog>>

\* _get_conn, line 17: if self._conn is None (no lock is taken)
TGetConnCheck(t) ==
    /\ th[t].pc = "get_conn"
    /\ th' = [th EXCEPT ![t] = IF conn = "none"
                                THEN [@ EXCEPT !.pc = "connect"]
                                ELSE [@ EXCEPT !.pc = "execute", !.h = connOwner]]
    /\ UNCHANGED <<storeVars, runVars, envVars, fnVars, connOwner, fileLock, callLog>>

\* _get_conn, lines 18-20: self._conn = sqlite3.connect(...); return it
TGetConnConnect(t) ==
    /\ th[t].pc = "connect"
    /\ conn' = "open"
    /\ connOwner' = t
    /\ closeLog' = NoCloses
    /\ th' = [th EXCEPT ![t] = [@ EXCEPT !.pc = "execute", !.h = t]]
    /\ UNCHANGED <<disk, view, storePc, inflight, inflightArgs, returned,
                   lastRead, crashes, runVars, envVars, fnVars, fileLock, callLog>>

\* conn.execute(INSERT ...) on a connection another thread created
TInsertWrongThread(t) ==
    /\ th[t].pc = "execute"
    /\ ~SameThread(t, th[t].h)
    /\ ThreadDone(t, "ProgrammingError", 0)
    /\ UNCHANGED <<storeVars, runVars, envVars, fnVars, connOwner, fileLock>>

\* conn.execute(INSERT ...) on the thread's own connection
TInsert(t) ==
    /\ th[t].pc = "execute"
    /\ SameThread(t, th[t].h)
    /\ CanLock(t)
    /\ fileLock' = t
    /\ th' = [th EXCEPT ![t] = [@ EXCEPT !.pc = "inserted",
                                         !.id = NextId(disk),
                                         !.view = InsertRow(disk, th[t].args)]]
    /\ UNCHANGED <<storeVars, runVars, envVars, fnVars, connOwner, callLog>>

\* conn.commit(); return cur.lastrowid or 0
TCommit(t) ==
    /\ th[t].pc = "inserted"
    /\ disk' = Commit(disk, th[t].view)
    /\ fileLock' = 0
    /\ ThreadDone(t, "returned", LastRowIdOr0(th[t].id))
    /\ UNCHANGED <<conn, view, storePc, inflight, inflightArgs, returned,
                   lastRead, crashes, closeLog, runVars, envVars, fnVars, connOwner>>

\* ------------------------------------------------------------------------
\* The story document and the objects built from it
\* ------------------------------------------------------------------------
CharIds == {"A", "B", "C"}

\* a declared character: its id, its name, and whether its "scenes" list
\* is present and non-empty
DeclaredChars == [id : CharIds, name : {"self", "moderator"}, hasScenes : BOOLEAN]

NameOf(c) == IF c.name = "self" THEN c.id ELSE c.name

\* a scene of story["master"]
Scenes == [id : {"S2"}, hasId : BOOLEAN, hasPrompts : BOOLEAN,
           prompts : {<< >>, <<"start">>, <<"start", "go">>}]

NoScene == [id |-> "", hasId |-> FALSE, hasPrompts |-> FALSE, prompts |-> << >>]

FirstScene == [id |-> "S1", hasId |-> TRUE, hasPrompts |-> TRUE,
               prompts |-> <<"intro">>]

\* entity.py Character: id, name and its own agent; the agent is identified
\* by the character that owns it and carries the character's name
ModeratorChar == [id |-> "moderator", name |-> "moderator"]

AgentOf(c) == [owner |-> c.id, name |-> c.name]

\* result[character_obj.id] = character_obj on an insertion-ordered dict
DictSet(d, c) ==
    IF \E i \in 1..Len(d) : d[i].id = c.id
    THEN [i \in 1..Len(d) |-> IF d[i].id = c.id THEN c ELSE d[i]]
    ELSE Append(d, c)

\* create_characters: characters without a non-empty "scenes" are skipped
RECURSIVE create_characters(_, _)
create_characters(chars, result) ==
    IF chars = << >> THEN result
    ELSE LET c == Head(chars)
         IN IF ~c.hasScenes
            THEN create_characters(Tail(chars), result)
            ELSE create_characters(Tail(chars),
                     DictSet(result, [id |-> c.id, name |-> NameOf(c)]))

\* ------------------------------------------------------------------------
\* Text
\* ------------------------------------------------------------------------
\* sep.join(parts), parts being a sequence of texts
RECURSIVE Join(_, _)
Join(parts, sep) ==
    IF parts = << >> THEN << >>
    ELSE IF Len(parts) = 1 THEN parts[1]
    ELSE parts[1] \o <<sep>> \o Join(Tail(parts), sep)

\* each prompt of the story is one token of text
AsTexts(tokens) == [i \in 1..Len(tokens) |-> <<tokens[i]>>]

\* the f-string of run_scenes: act preamble, the joined prompts, the reminder
LeadPrompt(prompts) ==
    <<"act-two: ">> \o Join(AsTexts(prompts), ", ") \o <<"reminder">>

\* json.dump(obj) as run_scenes calls it: one positional argument, the
\* required second one (fp) missing, so the call raises TypeError
json_dump(text) == [raised |-> TRUE, exc |-> "TypeError", value |-> << >>]

\* the reply an agent produces: a Msg whose content is a string, a list of
\* blocks (possibly empty), or None, or an object without a content attribute
ReplyKinds == {"str", "blocks", "empty_blocks", "none", "absent"}

\* a content block carrying text in a text attribute
TextBlock(t) == [hasText |-> TRUE, text |-> t]

ReplyOf(agent) ==
    CASE replyKind = "str" ->
           [kind |-> "str", text |-> <<"reply_", agent.owner>>, blocks |-> << >>]
      [] replyKind = "blocks" ->
           [kind |-> "blocks", text |-> << >>,
            blocks |-> <<TextBlock(<<"reply_">>), TextBlock(<<agent.owner>>)>>]
      [] replyKind = "empty_blocks" ->
           [kind |-> "blocks", text |-> << >>, blocks |-> << >>]
      [] OTHER ->
           [kind |-> replyKind, text |-> << >>, blocks |-> << >>]

\* a content block that is a dict ({"type": "text", "text": t}): it has a
\* "text" key and no text attribute
DictBlock(t) == [hasText |-> FALSE, text |-> t]

NoReply == [kind |-> "none", text |-> << >>, blocks |-> << >>]

NoCall == [done |-> FALSE, text |-> << >>]

\* getattr(block, "text", str(block))
BlockText(b) == IF b.hasText THEN b.text ELSE <<"{">> \o b.text \o <<"}">>

\* _msg_content: content is the reply's content attribute, str(reply) if it
\* has none; a list content is its blocks' texts joined with single spaces;
\* a string content is returned as it is; anything else (None) goes
\* through str()
msg_content(reply) ==
    CASE reply.kind = "blocks" ->
           Join([i \in 1..Len(reply.blocks) |-> BlockText(reply.blocks[i])], " ")
      [] reply.kind = "str" -> reply.text
      [] reply.kind = "absent" -> <<"Msg(...)">>
      [] OTHER -> <<"None">>


\* ------------------------------------------------------------------------
\* The body of the MsgHub block of run_scenes
\* ------------------------------------------------------------------------
\* memory.add as the run calls it (INSERT and commit), the write that the
\* environment makes fail raising sqlite3.Error instead
MemoryAdd(st, a) ==
    IF st.writes + 1 = storeFailAt
    THEN [st EXCEPT !.writes = @ + 1, !.exc = "StorageError"]
    ELSE LET v == InsertRow(st.view, a)
         IN [st EXCEPT !.writes = @ + 1, !.view = v, !.disk = Commit(st.disk, v)]

\* next((c for c in characters.values() if c.agent is agent), None)
CharOfAgent(agent) ==
    LET hits == {i \in 1..Len(characters) : characters[i].id = agent.owner}
    IN IF hits = {} THEN ModeratorChar
       ELSE characters[CHOOSE i \in hits : \A j \in hits : i <= j]

HasCharOfAgent(agent) == \E i \in 1..Len(characters) : characters[i].id = agent.owner

\* for agent in scene_hub.participants: ... (one turn after the other; a
\* raising call or write ends the loop)
RECURSIVE TurnLoop(_, _)
TurnLoop(i, st) ==
    IF i > Len(participants) \/ st.exc # "none" THEN st
    ELSE LET agent == participants[i]
         IN IF agent.name = "moderator" THEN TurnLoop(i + 1, st)
            ELSE LET st1 == [st EXCEPT !.asked = Append(@, agent.owner)]
                 IN IF Len(st1.asked) = failAt
                    THEN [st1 EXCEPT !.exc = "AgentCallError"]
                    ELSE LET content == msg_content(ReplyOf(agent))
                             char == CharOfAgent(agent)
                         IN IF HasCharOfAgent(agent)
                            THEN TurnLoop(i + 1,
                                   MemoryAdd(st1,
                                     [scene_id |-> scene.id,
                                      scene_name |-> "scene",
                                      character_id |-> char.id,
                                      character_name |-> char.name,
                                      content |-> content]))
                            ELSE TurnLoop(i + 1, st1)

\* a body that does not test for the prompts field (reads it as empty when
\* absent) and logs the prompt text itself
BodyNoGuard(st) ==
    TurnLoop(1,
      MemoryAdd(st, [scene_id |-> scene.id, scene_name |-> "scene",
                     character_id |-> ModeratorChar.id,
                     character_name |-> ModeratorChar.name,
                     content |-> LeadPrompt(scene.prompts)]))

\* lines 126-146: if "prompts" in scene: log the lead prompt, then the turns
Body(st) ==
    IF ~scene.hasPrompts THEN st
    ELSE LET prompt == LeadPrompt(scene.prompts)
             dumped == json_dump(prompt)
         IN IF dumped.raised
            THEN [st EXCEPT !.exc = dumped.exc]
            ELSE TurnLoop(1,
                   MemoryAdd(st, [scene_id |-> scene.id,
                                  scene_name |-> "scene",
                                  character_id |-> ModeratorChar.id,
                                  character_name |-> ModeratorChar.name,
                                  content |-> dumped.value]))

\* ------------------------------------------------------------------------
\* The command-line run
\* ------------------------------------------------------------------------
\* __main__: parse_story, StoryMemory(story_id), create_moderator,
\* create_characters; an sqlite3.Error raised by the constructor's
\* _ensure_table is caught by nothing and ends the script
MainSetup ==
    /\ pc = "main"
    /\ conn' = GetConn(conn)
    /\ view' = disk
    /\ IF setupFails
       THEN /\ exc' = "StorageError"
            /\ pc' = "raised"
            /\ characters' = characters
       ELSE /\ exc' = exc
            /\ pc' = "run_scenes"
            /\ characters' = create_characters(story.characters, << >>)
    /\ UNCHANGED <<disk, storePc, inflight, inflightArgs, returned, lastRead,
                   crashes, story, participants, scene, hubOpen, hubsOpened,
                   asked, seq0, envVars, fnVars, concVars>>
    /\ closeLog' = OnConnect(conn, closeLog)

\* a run that takes the first entry of the scene list
TargetSceneFirst == story.master[1]

\* scene = story["master"][1]: the second entry of the scene list
TargetScene == story.master[2]

\* a participant list made of the characters' agents only
ParticipantsOfCharactersOnly ==
    [i \in 1..Len(characters) |-> AgentOf(characters[i])]

\* participants = [moderator.agent]; participants.extend(c.agent for c in
\* characters.values())
ParticipantsOf ==
    <<AgentOf(ModeratorChar)>> \o
        [i \in 1..Len(characters) |-> AgentOf(characters[i])]

\* a start that reads the scene's id only if there is one and opens the hub
\* all the same, the KeyError waiting for the first use of the id
RunScenesBeginLenient ==
    /\ pc = "run_scenes"
    /\ participants' = ParticipantsOf
    /\ IF Len(story.master) < 2
       THEN /\ exc' = "IndexError"
            /\ pc' = "raised"
            /\ scene' = scene
       ELSE /\ exc' = IF story.master[2].hasId THEN exc ELSE "KeyError"
            /\ pc' = "hub_enter"
            /\ scene' = TargetScene
    /\ UNCHANGED <<storeVars, story, characters, hubOpen, hubsOpened, asked,
                   seq0, envVars, fnVars, concVars>>

\* run_scenes up to the MsgHub block: the participant list, then the scene
\* story["master"][1] (IndexError if there is none) and its id (KeyError)
RunScenesBegin ==
    /\ pc = "run_scenes"
    /\ participants' = ParticipantsOf
    /\ IF Len(story.master) < 2
       THEN /\ exc' = "IndexError"
            /\ pc' = "raised"
            /\ scene' = scene
       ELSE IF ~story.master[2].hasId
       THEN /\ exc' = "KeyError"
            /\ pc' = "raised"
            /\ scene' = TargetScene
       ELSE /\ exc' = exc
            /\ pc' = "hub_enter"
            /\ scene' = TargetScene
    /\ UNCHANGED <<storeVars, story, characters, hubOpen, hubsOpened, asked,
                   seq0, envVars, fnVars, concVars>>

\* async with MsgHub(participants=participants) as scene_hub: entry
HubEnter ==
    /\ pc = "hub_enter"
    /\ hubOpen' = TRUE
    /\ hubsOpened' = hubsOpened + 1
    /\ pc' = "in_hub"
    /\ UNCHANGED <<storeVars, story, characters, participants, scene, exc,
                   asked, seq0, envVars, fnVars, concVars>>

\* a body that is run again whenever it raised
SceneBodyRetry ==
    /\ pc = "in_hub"
    /\ LET st == Body([disk |-> disk, view |-> view, asked |-> asked,
                       exc |-> "none", writes |-> 0])
       IN /\ disk' = st.disk
          /\ view' = st.view
          /\ asked' = st.asked
          /\ exc' = "none"
          /\ pc' = IF st.exc = "none" THEN "hub_exit" ELSE "in_hub"
    /\ UNCHANGED <<conn, storePc, inflight, inflightArgs, returned, lastRead,
                   crashes, story, characters, participants, scene, hubOpen,
                   hubsOpened, seq0, envVars, fnVars, concVars>>
    /\ UNCHANGED closeLog

\* the body of the block, up to its normal end or to the raise that leaves it
SceneBody ==
    /\ pc = "in_hub"
    /\ LET st == Body([disk |-> disk, view |-> view, asked |-> asked,
                       exc |-> "none", writes |-> 0])
       IN /\ disk' = st.disk
          /\ view' = st.view
          /\ asked' = st.asked
          /\ exc' = st.exc
    /\ pc' = "hub_exit"
    /\ UNCHANGED <<conn, storePc, inflight, inflightArgs, returned, lastRead,
                   crashes, story, characters, participants, scene, hubOpen,
                   hubsOpened, seq0, envVars, fnVars, concVars>>
    /\ UNCHANGED closeLog

\* a block exit that skips the release when the body raised
HubExitLeaky ==
    /\ pc = "hub_exit"
    /\ hubOpen' = (exc # "none")
    /\ pc' = IF exc = "none" THEN "done" ELSE "raised"
    /\ UNCHANGED <<storeVars, story, characters, participants, scene,
                   hubsOpened, exc, asked, seq0, envVars, fnVars, concVars>>

\* async with: __aexit__ runs on the normal and on the raising exit, then
\* the exception, if any, propagates out of run_scenes
HubExit ==
    /\ pc = "hub_exit"
    /\ hubOpen' = FALSE
    /\ pc' = IF exc = "none" THEN "done" ELSE "raised"
    /\ UNCHANGED <<storeVars, story, characters, participants, scene,
                   hubsOpened, exc, asked, seq0, envVars, fnVars, concVars>>

\* the script ends after asyncio.run returned or raised, or after the
\* store's constructor raised: the process exits
\* (status 0, or the traceback of the uncaught exception and status 1);
\* nothing closes the store, the connection goes with the process
MainExit ==
    /\ pc \in {"done", "raised"}
    /\ pc' = IF exc = "none" THEN "exit_ok" ELSE "exit_traceback"
    /\ conn' = "none"
    /\ view' = disk
    /\ UNCHANGED <<disk, storePc, inflight, inflightArgs, returned, lastRead,
                   crashes, closeLog, story, characters, participants, scene,
                   hubOpen, hubsOpened, exc, asked, seq0, envVars, fnVars, concVars>>

\* ------------------------------------------------------------------------
\* Specifications
\* ------------------------------------------------------------------------
\* the ids in the order a story declares them (ids are labels: which
\* character comes first under which id makes no difference to the code)
IdSeq == <<"A", "B", "C">>

\* sequences of distinct declared characters, at most n long
RECURSIVE CharLists(_)
CharLists(n) ==
    IF n = 0 THEN {<< >>}
    ELSE LET shorter == CharLists(n - 1)
         IN shorter \cup
            {Append(l, c) : l \in {k \in shorter : Len(k) = n - 1},
                            c \in {d \in DeclaredChars : d.id = IdSeq[n]}}

DistinctIds(l) == \A i, j \in 1..Len(l) : i # j => l[i].id # l[j].id

Stories == {[characters |-> l, master |-> m] :
              l \in {k \in CharLists(MaxChars) : DistinctIds(k)},
              m \in {<<FirstScene>>} \cup
                    {<<FirstScene, s>> : s \in
                        {x \in Scenes : ~x.hasPrompts => x.prompts = << >>}}}

\* the rows earlier runs left in the table
RECURSIVE PriorDb(_)
PriorDb(n) ==
    IF n = 0 THEN EmptyDb
    ELSE InsertRow(PriorDb(n - 1),
                   [scene_id |-> "S2", scene_name |-> "scene",
                    character_id |-> "moderator",
                    character_name |-> "moderator", content |-> <<"old">>])

StoreIdle ==
    /\ storePc = "idle"
    /\ inflight = 0
    /\ inflightArgs = NoArgs
    /\ returned = << >>
    /\ lastRead = NoRead
    /\ crashes = 0
    /\ closeLog = NoCloses
    /\ connOwner = 1
    /\ fileLock = 0
    /\ th = [t \in Threads |-> IdleThread]
    /\ callLog = << >>

\* which calls and writes fail and what the replies look like can make a
\* difference only to a run that gets to a scene with prompts
EnvMatters ==
    /\ ~setupFails
    /\ Len(story.master) >= 2
    /\ story.master[2].hasId
    /\ story.master[2].hasPrompts

\* a command-line run on some story, against the file earlier runs left;
\* where the environment makes no difference one environment stands for all
Init ==
    /\ StoreIdle
    /\ conn = "none"
    /\ \E n \in 0..MaxPrior : disk = PriorDb(n)
    /\ view = disk
    /\ seq0 = disk.seq
    /\ pc = "main"
    /\ story \in Stories
    /\ characters = << >>
    /\ participants = << >>
    /\ scene = NoScene
    /\ hubOpen = FALSE
    /\ hubsOpened = 0
    /\ exc = "none"
    /\ asked = << >>
    /\ failAt \in 0..MaxChars
    /\ storeFailAt \in 0..1
    /\ replyKind \in ReplyKinds
    /\ setupFails \in BOOLEAN
    /\ EnvMatters \/ (failAt = 0 /\ storeFailAt = 0 /\ replyKind = "str")
    /\ msgIn = NoReply
    /\ msgOut = NoCall

Next ==
    \/ MainSetup
    \/ RunScenesBegin
    \/ HubEnter
    \/ SceneBody
    \/ HubExit
    \/ MainExit

Spec == Init /\ [][Next]_vars

\* the same run with the interpreter never pausing for ever before a
\* statement it can execute: asyncio.run drives the one coroutine, and a
\* participant call or store write inside the body returns or raises
SpecLive == Init /\ [][Next]_vars /\ WF_vars(Next)

\* a client of one StoryMemory, from its construction on a fresh file
InitStore ==
    /\ StoreIdle
    /\ conn = "open"
    /\ disk = EmptyDb
    /\ view = disk
    /\ seq0 = 0
    /\ pc = "off"
    /\ story = [characters |-> << >>, master |-> << >>]
    /\ characters = << >>
    /\ participants = << >>
    /\ scene = NoScene
    /\ hubOpen = FALSE
    /\ hubsOpened = 0
    /\ exc = "none"
    /\ asked = << >>
    /\ failAt = 0
    /\ storeFailAt = 0
    /\ replyKind = "str"
    /\ setupFails = FALSE
    /\ msgIn = NoReply
    /\ msgOut = NoCall

NextStore ==
    \/ \E a \in AddArgs : AddInsert(a)
    \/ AddCommit
    \/ AddInsertFail
    \/ AddCommitFail
    \/ \E s \in StoreScenes : ListByScene(s)
    \/ ListAll
    \/ Close
    \/ ExitWith
    \/ Crash
    \/ Restart

SpecStore == InitStore /\ [][NextStore]_vars

\* two threads calling add on one StoryMemory that thread 1 constructed on a
\* fresh file, and may have closed since
InitConc ==
    /\ StoreIdle
    /\ conn \in {"open", "none"}
    /\ disk = EmptyDb
    /\ view = disk
    /\ seq0 = 0
    /\ pc = "off"
    /\ story = [characters |-> << >>, master |-> << >>]
    /\ characters = << >>
    /\ participants = << >>
    /\ scene = NoScene
    /\ hubOpen = FALSE
    /\ hubsOpened = 0
    /\ exc = "none"
    /\ asked = << >>
    /\ failAt = 0
    /\ storeFailAt = 0
    /\ replyKind = "str"
    /\ setupFails = FALSE
    /\ msgIn = NoReply
    /\ msgOut = NoCall

NextConc ==
    \/ \E t \in Threads : \E a \in ThreadArgs(t) : TAddCall(t, a)
    \/ \E t \in Threads : TGetConnCheck(t)
    \/ \E t \in Threads : TGetConnConnect(t)
    \/ \E t \in Threads : TInsertWrongThread(t)
    \/ \E t \in Threads : TInsert(t)
    \/ \E t \in Threads : TCommit(t)

SpecConc == InitConc /\ [][NextConc]_vars

\* the texts a segment or a string content may carry (with the empty one,
\* and one that has a space inside)
SegmentTexts == {<< >>, <<"a">>, <<"b">>, <<"a", " ", "b">>}

\* the content blocks a list content may hold: objects with a text
\* attribute, and dicts
Blocks == {TextBlock(t) : t \in SegmentTexts} \cup {DictBlock(t) : t \in SegmentTexts}

RECURSIVE BlockLists(_)
BlockLists(n) ==
    IF n = 0 THEN {<< >>}
    ELSE LET shorter == BlockLists(n - 1)
         IN shorter \cup {Append(l, b) : l \in {k \in shorter : Len(k) = n - 1},
                                         b \in Blocks}

\* the replies _msg_content may be handed
Replies ==
    {[kind |-> "blocks", text |-> << >>, blocks |-> l] : l \in BlockLists(MaxBlocks)}
        \cup {[kind |-> "str", text |-> t, blocks |-> << >>] : t \in SegmentTexts}
        \cup {[kind |-> k, text |-> << >>, blocks |-> << >>] : k \in {"none", "absent"}}

\* content = _msg_content(reply_msg)
MsgContentCall ==
    /\ ~msgOut.done
    /\ msgOut' = [done |-> TRUE, text |-> msg_content(msgIn)]
    /\ UNCHANGED <<storeVars, runVars, envVars, concVars, msgIn>>

\* one call of _msg_content on some reply
InitMsg ==
    /\ StoreIdle
    /\ conn = "none"
    /\ disk = EmptyDb
    /\ view = disk
    /\ seq0 = 0
    /\ pc = "off"
    /\ story = [characters |-> << >>, master |-> << >>]
    /\ characters = << >>
    /\ participants = << >>
    /\ scene = NoScene
    /\ hubOpen = FALSE
    /\ hubsOpened = 0
    /\ exc = "none"
    /\ asked = << >>
    /\ failAt = 0
    /\ storeFailAt = 0
    /\ replyKind = "str"
    /\ setupFails = FALSE
    /\ msgIn \in Replies
    /\ msgOut = NoCall

NextMsg == MsgContentCall

SpecMsg == InitMsg /\ [][NextMsg]_vars


\* ------------------------------------------------------------------------
\* Properties of the orchestrator run (specification Spec)
\* ------------------------------------------------------------------------
RunEnded == pc \in {"done", "raised"}

\* the run has ended after processing (entering the hub of) a scene that has
\* a prompts field
ProcessedWithPrompts == RunEnded /\ hubsOpened = 1 /\ scene.hasPrompts

\* the rows the run appended, in id order
AppendedRows == OrderById({r \in disk.rows : r.id > seq0})

\* the agents of the hub other than the moderator's, in hub order
NonModerators == SelectSeq(participants, LAMBDA a : a.name # "moderator")

\* the environment makes no participant call and no store write fail
NothingFails ==
    /\ failAt = 0 \/ failAt > Len(NonModerators)
    /\ storeFailAt = 0

IdsIncrease(rows) ==
    \A i, j \in 1..Len(rows) : i < j => rows[i].id < rows[j].id

CharacterAuthored(rows) == SelectSeq(rows, LAMBDA r : r.character_id # "moderator")

DeclaredIds == [i \in 1..Len(story.characters) |-> story.characters[i].id]

\* C1: when a run on a scene with non-empty prompts has ended and no
\* participant call and no store write failed, the run has appended exactly
\* 1 + N rows (N the non-moderator participants), with increasing ids.
C1_OnePlusNMessages ==
    (ProcessedWithPrompts /\ scene.prompts # << >> /\ NothingFails)
        => /\ Len(AppendedRows) = 1 + Len(NonModerators)
           /\ IdsIncrease(AppendedRows)

\* C2: when a run on a scene with prompts has ended and nothing failed, the
\* character-authored rows of the scene, in id order, are one per character
\* taking part, each attributed to the character whose agent replied, in
\* the order the story declares the characters.
C2_DeclaredCharacterOrder ==
    (ProcessedWithPrompts /\ NothingFails)
        => LET rows == CharacterAuthored(AppendedRows)
               Pos(c) == CHOOSE k \in 1..Len(DeclaredIds) : DeclaredIds[k] = c
           IN /\ Len(rows) = Len(NonModerators)
              /\ \A i \in 1..Len(rows) :
                    /\ rows[i].character_id = NonModerators[i].owner
                    /\ rows[i].scene_id = scene.id
              /\ \A i, j \in 1..Len(rows) :
                    i < j => Pos(rows[i].character_id) < Pos(rows[j].character_id)

\* C3: when a run on a scene with prompts has ended and the k-th of the N
\* participant calls was the one to fail, the store holds for the run the
\* moderator's lead prompt and the replies of participants 1..k-1, and
\* nothing of participants k..N.
C3_FailureIsolation ==
    (ProcessedWithPrompts /\ failAt \in 1..Len(NonModerators)
                          /\ storeFailAt = 0)
        => /\ Len(AppendedRows) = failAt
           /\ AppendedRows[1].character_id = "moderator"
           /\ \A i \in 2..failAt :
                 AppendedRows[i].character_id = NonModerators[i - 1].owner

\* C4: characters [A, B], the scene's prompts ["start"], an empty store and
\* both calls succeeding: the run leaves three rows with ids 1, 2, 3, by
\* the moderator (the "start" prompt), A (A's reply) and B (B's reply).
C4_ConcreteScenario ==
    (/\ ProcessedWithPrompts
     /\ story.characters = <<[id |-> "A", name |-> "self", hasScenes |-> TRUE],
                             [id |-> "B", name |-> "self", hasScenes |-> TRUE]>>
     /\ scene.prompts = <<"start">>
     /\ seq0 = 0 /\ NothingFails)
        => /\ Len(AppendedRows) = 3
           /\ \A i \in 1..3 : AppendedRows[i].id = i
           /\ AppendedRows[1].character_id = "moderator"
           /\ \E k \in 1..Len(AppendedRows[1].content) :
                 AppendedRows[1].content[k] = "start"
           /\ AppendedRows[2].character_id = "A"
           /\ AppendedRows[2].content = msg_content(ReplyOf(participants[2]))
           /\ AppendedRows[3].character_id = "B"
           /\ AppendedRows[3].content = msg_content(ReplyOf(participants[3]))

\* C6: a hub is open only inside the block; whenever the run has ended,
\* normally or by an exception, no hub is open.
C6_HubClosedOnEveryExit ==
    /\ RunEnded => ~hubOpen
    /\ hubOpen => pc \in {"in_hub", "hub_exit"}

\* a run that opened the hub, left the block by an exception, and closed it
C6_Witness == pc = "raised" /\ hubsOpened = 1 /\ exc = "TypeError" /\ ~hubOpen

\* C7: a run whose scene has no prompts field appends no row and invokes no
\* participant.
C7_NoPromptsNoMessages ==
    (pc \in {"hub_exit", "done", "raised"} /\ hubsOpened = 1 /\ ~scene.hasPrompts)
        => /\ AppendedRows = << >>
           /\ view = disk
           /\ asked = << >>

\* a completed run over a scene without prompts, with characters in the hub
C7_Witness ==
    /\ pc = "done" /\ hubsOpened = 1 /\ ~scene.hasPrompts
    /\ Len(NonModerators) >= 1

C9_ReturnedAddIsDurable ==
    \A i \in 1..Len(returned) :
        LET a == returned[i]
            IsRow(r) == /\ r.id = a.id
                        /\ r.scene_id = a.scene_id
                        /\ r.character_id = a.character_id
                        /\ r.content = a.content
        IN /\ \E r \in disk.rows : IsRow(r)
           /\ lastRead.op = "list_all"
                => \E k \in 1..Len(lastRead.rows) : IsRow(lastRead.rows[k])

\* after an add returned, the process crashed and restarted, list_all was
\* called
C9_Witness ==
    /\ crashes > 0
    /\ storePc = "idle"
    /\ lastRead.op = "list_all"
    /\ \E i \in 1..Len(returned) : returned[i].run = 0

\* C10: a list_by_scene(S) made after add(S, _, C, _, T) returned id holds a
\* row with that id, scene_id S, character_id C and content T.
C10_RoundTrip ==
    lastRead.op = "list_by_scene"
        => \A i \in 1..Len(returned) :
              returned[i].scene_id = lastRead.scene
                 => \E k \in 1..Len(lastRead.rows) :
                       /\ lastRead.rows[k].id = returned[i].id
                       /\ lastRead.rows[k].scene_id = returned[i].scene_id
                       /\ lastRead.rows[k].character_id = returned[i].character_id
                       /\ lastRead.rows[k].content = returned[i].content

\* a list_by_scene(S) after adds to S and to another scene returned
C10_Witness ==
    /\ lastRead.op = "list_by_scene"
    /\ \E i, j \in 1..Len(returned) :
          /\ returned[i].scene_id = lastRead.scene
          /\ returned[i].content # << >>
          /\ returned[j].scene_id # lastRead.scene


\* a step that is a call of list_by_scene or list_all
IsReadStep ==
    /\ storePc = "idle" /\ storePc' = "idle"
    /\ conn' = "open"
    /\ lastRead'.op # "none"
    /\ returned' = returned

\* C11: a list_by_scene (same scene) or list_all made after another one by
\* the same process, no add having begun in between, returns the same
\* sequence, and a read leaves the stored rows as they are.
C11_IdempotentRead ==
    [][IsReadStep
         => /\ disk' = disk /\ view' = view
            /\ (/\ lastRead.op = lastRead'.op
                /\ lastRead.scene = lastRead'.scene
                /\ lastRead.run = crashes)
                  => lastRead'.rows = lastRead.rows]_vars


\* the scene ids asked for: those written and one that never is
QueriedScenes == StoreScenes \cup {"S9"}

\* C12: in every state of the store a caller can read, list_by_scene(S) is
\* list_all restricted to the rows of scene S, in ascending id order, and
\* is the empty sequence when no row is of scene S.
C12_ByScenesIsRestrictionOfAll ==
    storePc = "idle"
        => \A s \in QueriedScenes :
              LET byScene == SelectByScene(view, s)
                  all == SelectAll(view)
              IN /\ byScene = SelectSeq(all, LAMBDA r : r.scene_id = s)
                 /\ IdsIncrease(byScene)
                 /\ (\A r \in view.rows : r.scene_id # s) => byScene = << >>

\* a readable store with two rows of one scene and none of another
C12_Witness ==
    /\ storePc = "idle"
    /\ Len(SelectByScene(view, "S1")) = 2
    /\ SelectByScene(view, "S2") = << >>
    /\ Len(SelectAll(view)) = 2


IsPrefix(p, q) == Len(p) <= Len(q) /\ \A i \in 1..Len(p) : q[i] = p[i]

\* what list_all returns to a caller of the store: between the INSERT and
\* the commit of an add nobody can call it, and the row being added is not
\* yet part of it
ListAllNow ==
    IF storePc = "inserted"
    THEN OrderById({r \in view.rows : r.id # inflight})
    ELSE SelectAll(view)

\* C13: whatever operation is performed (add, list_by_scene, list_all,
\* close, reopen, restart), what list_all returned before is a prefix of
\* what it returns after: no row is changed or removed.
C13_AppendOnly == [][IsPrefix(ListAllNow, ListAllNow')]_vars


\* C14: of the close() calls made on a connection only the first releases
\* it; after a close() the store holds no connection, and a close() on a
\* store without a connection changes nothing and releases nothing.
C14_CloseOnceIdempotent ==
    [][/\ closeLog'.released <= 1
       /\ closeLog'.calls >= 1 => conn' = "none"
       /\ (closeLog'.calls = closeLog.calls + 1 /\ conn = "none")
            => /\ closeLog'.released = closeLog.released
               /\ UNCHANGED <<conn, disk, view, storePc, returned, lastRead>>]_vars

\* a second close() was made on a store whose connection the first released
C14_Witness == closeLog.calls = 2 /\ closeLog.released = 1 /\ conn = "none"


\* the process of the command-line run has exited
ProcessExited == pc \in {"exit_ok", "exit_traceback"}

\* C15: when the run is over and the process exits, normally or after a
\* failure, close() has been called on the store the run opened and has
\* released its connection.
C15_StoreClosedAtEnd ==
    (ProcessExited /\ exc \in {"none", "AgentCallError", "StorageError"})
        => closeLog.calls >= 1 /\ closeLog.released = 1


\* the replies carry no text: an empty list of blocks, a None content, or no
\* content attribute
RepliesStructurallyEmpty == replyKind \in {"empty_blocks", "none", "absent"}

\* C16: when a run on a scene with prompts has ended, nothing failed and
\* the replies carried no extractable text, there is one row per character
\* asked, each with the empty string as its content.
C16_EmptyReplyStillLogged ==
    (ProcessedWithPrompts /\ NothingFails /\ RepliesStructurallyEmpty)
        => LET rows == CharacterAuthored(AppendedRows)
           IN /\ Len(rows) = Len(NonModerators)
              /\ \A i \in 1..Len(rows) : rows[i].content = << >>


\* the number of times the agent of character c was asked for a reply
TimesAsked(c) == Cardinality({i \in 1..Len(asked) : asked[i] = c})

InHub(c) == \E i \in 1..Len(participants) : participants[i].owner = c

\* C17: when a run on a scene with prompts has ended and nothing failed,
\* every character the story declares is a member of the hub and was asked
\* for a reply exactly once.
C17_EveryDeclaredAskedOnce ==
    (ProcessedWithPrompts /\ NothingFails)
        => \A k \in 1..Len(DeclaredIds) :
              /\ InHub(DeclaredIds[k])
              /\ TimesAsked(DeclaredIds[k]) = 1

ModeratorRows == SelectSeq(AppendedRows, LAMBDA r : r.character_id = "moderator")

\* C18: every hub that is opened has the moderator's agent among its
\* participants; no agent named moderator is ever asked for a reply; the
\* run appends at most one row attributed to the moderator, and such a row
\* is the first row the run appended (the lead prompt's).
C18_ModeratorMemberNeverAsked ==
    /\ hubsOpened >= 1
         => \E i \in 1..Len(participants) : participants[i] = AgentOf(ModeratorChar)
    /\ \A i \in 1..Len(participants) :
          participants[i].name = "moderator" => TimesAsked(participants[i].owner) = 0
    /\ Len(ModeratorRows) <= 1
    /\ ModeratorRows # << >> => ModeratorRows[1].id = seq0 + 1

\* a hub was opened on a scene with prompts for the moderator and two
\* characters, one of them named moderator, and the run has ended
C18_Witness ==
    /\ ProcessedWithPrompts
    /\ hubOpen = FALSE
    /\ Len(participants) = 3
    /\ participants[1] = AgentOf(ModeratorChar)
    /\ \E i \in 2..3 : participants[i].name = "moderator"
    /\ \E i \in 2..3 : participants[i].name # "moderator"

\* the targeted scene, master[1], is absent or has no id field
Malformed == Len(story.master) < 2 \/ ~story.master[2].hasId

\* C20: on a story whose targeted scene is absent or lacks its id, no hub
\* is ever opened, no participant is asked, no row is appended, and the run
\* ends by raising (IndexError or KeyError), never normally.
C20_MalformedFailsFast ==
    Malformed
        => /\ hubsOpened = 0
           /\ ~hubOpen
           /\ asked = << >>
           /\ AppendedRows = << >>
           /\ pc \notin {"hub_enter", "in_hub", "hub_exit", "done", "exit_ok"}
           /\ ((RunEnded \/ ProcessExited) /\ ~setupFails)
                 => exc \in {"IndexError", "KeyError"}

\* the run on a story whose targeted scene has no id has raised KeyError
\* with characters created and the participant list built
C20_Witness ==
    /\ pc = "raised"
    /\ exc = "KeyError"
    /\ Len(story.master) = 2
    /\ Len(participants) >= 2


\* ------------------------------------------------------------------------
\* Properties of concurrent callers (specification SpecConc)
\* ------------------------------------------------------------------------
RowOfCall(r, c) ==
    /\ r.id = c.id
    /\ r.scene_id = c.args.scene_id
    /\ r.scene_name = c.args.scene_name
    /\ r.character_id = c.args.character_id
    /\ r.character_name = c.args.character_name
    /\ r.content = c.args.content

DistinctRowIds == \A r, q \in disk.rows : r.id = q.id => r = q

Unmixed == \A r \in disk.rows :
              \E t \in Threads : \E a \in ThreadArgs(t) :
                 /\ r.scene_id = a.scene_id
                 /\ r.scene_name = a.scene_name
                 /\ r.character_id = a.character_id
                 /\ r.character_name = a.character_name
                 /\ r.content = a.content

\* C21: every add call that ended, from whichever thread, has yielded one
\* complete row: it returned, and the table holds exactly one row with the
\* id it returned, carrying its five arguments; no two rows share an id and
\* every row has the fields of one call only.
C21_ConcurrentAddsSerialized ==
    /\ \A k \in 1..Len(callLog) :
          /\ callLog[k].outcome = "returned"
          /\ Cardinality({r \in disk.rows : RowOfCall(r, callLog[k])}) = 1
    /\ DistinctRowIds
    /\ Unmixed


\* ------------------------------------------------------------------------
\* Termination (specification SpecLive)
\* ------------------------------------------------------------------------
\* the run has left run_scenes: normally (Done) or by the exception that
\* ended it
Terminal == \/ pc \in {"done", "exit_ok"} /\ exc = "none"
            \/ pc \in {"raised", "exit_traceback"} /\ exc # "none"

\* C22: every run eventually reaches a terminal state, Done or ended by the
\* first error that was raised, and stays terminal.
C22_RunTerminates == <>[]Terminal

\* a run that went through a hub and ended normally, and whose process has
\* exited
C22_Witness == pc = "exit_ok" /\ hubsOpened = 1 /\ Len(participants) >= 2


\* ------------------------------------------------------------------------
\* The outcome of the process
\* ------------------------------------------------------------------------
\* C23: when the process of a command-line run has exited after a
\* participant call or a store write failed, it has exited through a
\* handler (non-zero status and a readable message), not through the
\* interpreter's traceback of an uncaught exception.
C23_FailuresAreHandled ==
    (/\ pc \in {"exit_ok", "exit_traceback", "exit_handled"}
     /\ exc \in {"AgentCallError", "StorageError"})
        => pc = "exit_handled"


\* ------------------------------------------------------------------------
\* The lead prompt and the scene of a run
\* ------------------------------------------------------------------------
\* C25: when a run on a scene with prompts has ended and no store write
\* failed, the first row the run appended is the moderator's and its
\* content is the lead-prompt text, the text run_scenes hands to every
\* participant in Msg("moderator", prompt, "user").
C25_LeadPromptLoggedAsDelivered ==
    (ProcessedWithPrompts /\ storeFailAt = 0)
        => /\ AppendedRows # << >>
           /\ AppendedRows[1].character_id = ModeratorChar.id
           /\ AppendedRows[1].scene_id = scene.id
           /\ AppendedRows[1].content = LeadPrompt(scene.prompts)

\* C26: a run opens at most one hub, has none open before or after it, the
\* scene it works on is the second entry of the story's scene list, a run
\* that ended normally opened one hub and closed it, and every row the run
\* appended carries that scene's id.
C26_OneFixedScene ==
    /\ hubsOpened <= 1
    /\ hubOpen => hubsOpened = 1 /\ pc \in {"in_hub", "hub_exit"}
    /\ scene # NoScene => Len(story.master) >= 2 /\ scene = story.master[2]
    /\ hubsOpened = 1 => scene = story.master[2]
    /\ pc \in {"done", "exit_ok"} => hubsOpened = 1 /\ ~hubOpen
    /\ \A i \in 1..Len(AppendedRows) : AppendedRows[i].scene_id = scene.id

\* a run on a two-scene story has ended normally after opening its hub on
\* the second scene and closing it
C26_Witness ==
    /\ pc = "done"
    /\ hubsOpened = 1
    /\ ~hubOpen
    /\ Len(story.master) = 2
    /\ scene.id = "S2"
    /\ scene # FirstScene


\* ------------------------------------------------------------------------
\* Properties of _msg_content (specification SpecMsg)
\* ------------------------------------------------------------------------
\* the texts of the segments of a list content, in order
SegmentsOf(reply) == [i \in 1..Len(reply.blocks) |-> reply.blocks[i].text]

\* C27: what _msg_content returns for a reply whose content is a list of
\* text segments is the segments' texts joined with one space between
\* consecutive ones (the empty string for no segment), and for a reply
\* whose content is a string it is that string.
C27_JoinedBySingleSpaces ==
    msgOut.done
        => /\ msgIn.kind = "blocks" => msgOut.text = Join(SegmentsOf(msgIn), " ")
           /\ msgIn.kind = "str" => msgOut.text = msgIn.text


\* ------------------------------------------------------------------------
\* Using the store after close() (specification SpecStore)
\* ------------------------------------------------------------------------
\* a step that is add's INSERT, list_by_scene or list_all on a store whose
\* connection close() released
IsUseOfClosedStep ==
    /\ conn = "none"
    /\ storePc = "idle"
    /\ closeLog.calls >= 1
    /\ storePc' = "inserted" \/ (storePc' = "idle" /\ lastRead' # lastRead)

\* the rows of the adds that returned are all in the set of rows S
HoldsReturned(S) ==
    \A i \in 1..Len(returned) :
        \E r \in S : /\ r.id = returned[i].id
                     /\ r.scene_id = returned[i].scene_id
                     /\ r.character_id = returned[i].character_id
                     /\ r.content = returned[i].content

\* C28: an add, list_by_scene or list_all made on a closed store opens a
\* new connection to the same file, which holds every row written before
\* the close: the add's INSERT goes on top of them and the read returns
\* them; and a close() made while a connection is open releases it.
C28_ClosedStoreReopens ==
    [][/\ IsUseOfClosedStep
            => /\ conn' = "open"
               /\ closeLog' = [calls |-> 0, released |-> 0, reopened |-> TRUE]
               /\ disk' = disk
               /\ HoldsReturned(view'.rows)
               /\ storePc' = "inserted" => Cardinality(view'.rows) = Cardinality(disk.rows) + 1
               /\ lastRead'.op = "list_all"
                    => HoldsReturned({lastRead'.rows[k] : k \in 1..Len(lastRead'.rows)})
       /\ (closeLog'.calls = closeLog.calls + 1 /\ conn = "open")
            => /\ conn' = "none"
               /\ closeLog'.released = closeLog.released + 1]_vars

\* a store with a row was closed, list_all on it made a new connection and
\* returned the row, and a close() released that connection
C28_Witness ==
    /\ closeLog = [calls |-> 1, released |-> 1, reopened |-> TRUE]
    /\ conn = "none"
    /\ crashes = 0
    /\ returned # << >>
    /\ lastRead.op = "list_all"
    /\ Len(lastRead.rows) = Len(returned)

====
